---- MODULE Spec2Model ----
(***************************************************************************)
(* Order lifecycle of the Droppers backend: the persisted orders, the REST *)
(* handlers of the order and delivery controllers and the Socket.io        *)
(* handlers of the server entry point.  Every handler that reads an order  *)
(* and then updates it is two steps: the request step (middleware, read,   *)
(* early returns) and the commit step (prisma.order.update and the         *)
(* response), so that other handlers may run between the two awaits.       *)
(***************************************************************************)
EXTENDS Integers, Sequences, FiniteSets, TLC

\* ------------------------------------------------------------------ bounds
MaxOrders == 1
MaxInFlight == 2
MaxStatsOrders == 2
MaxPublished == 2
MaxSocketWrites == 2
MaxUsers == 6

\* ------------------------------------------------------------ users, enums
Vendors == {"v1", "v2"}
Droppers == {"d1", "d2"}
Users == Vendors \cup Droppers
ANON == "anon"
GHOST == "ghost"
NULL == "null"
NoStatus == "undefined"

\* inputs of the requests: the REST callers hold a valid token, the socket
\* clients are a delivery dashboard and a client that never logged in, the
\* dropperId argument of 'order:accept' is a registered partner or no user
Callers == Users
SocketClients == {"d2", ANON}
DropperArgs == {"d1", GHOST}
OrderIds == 1..MaxOrders
StatusArgs == {"PENDING", "PICKED_UP", "IN_TRANSIT"}

OrderStatus ==
  {"PENDING", "ASSIGNED", "PICKED_UP", "IN_TRANSIT", "DELIVERED", "CANCELLED"}

UserRole(u) ==
  IF u \in Vendors THEN "VENDOR"
  ELSE IF u \in Droppers THEN "DELIVERY_PARTNER"
  ELSE "NONE"

\* ------------------------------------------------- order-creation bodies
\* A text field is a string; a field missing from the body is the empty
\* string.  orderValue is <<>> when omitted, <<n>> when given.
WS == " "
Digits == {"0", "1", "2", "3", "4", "5", "6", "7", "8", "9"}
MinAddressLen == 10
MinNameLen == 2
MinPhoneLen == 10
MinDescriptionLen == 5

CharAt(t, i) == SubSeq(t, i, i)

RECURSIVE TrimLeft(_)
TrimLeft(t) ==
  IF t # "" /\ CharAt(t, 1) = WS THEN TrimLeft(SubSeq(t, 2, Len(t))) ELSE t

RECURSIVE TrimRight(_)
TrimRight(t) ==
  IF t # "" /\ CharAt(t, Len(t)) = WS
    THEN TrimRight(SubSeq(t, 1, Len(t) - 1)) ELSE t

\* .trim() of express-validator: strips the whitespace at both ends
Trim(t) == TrimRight(TrimLeft(t))

\* .notEmpty().trim().isLength({ min }): notEmpty sees the raw value, isLength
\* the trimmed one
TextOk(t, min) == t # "" /\ Len(Trim(t)) >= min

\* /^\+?[\d\s-()]{10,}$/ on the trimmed value
PhoneOk(t) ==
  LET v == Trim(t)
      digits == IF v # "" /\ CharAt(v, 1) = "+" THEN SubSeq(v, 2, Len(v)) ELSE v
  IN /\ t # ""
     /\ Len(digits) >= MinPhoneLen
     /\ \A i \in 1..Len(digits) :
          CharAt(digits, i) \in Digits \cup {WS, "-", "(", ")"}

ValueOk_Any(v) == TRUE

\* body('orderValue').optional().isFloat({ min: 0 })
ValueOk(v) == v = <<>> \/ v[1] >= 0

\* validationResult(req).isEmpty()
validateOrderCreation(b) ==
  /\ TextOk(b.pickupAddress, MinAddressLen)
  /\ TextOk(b.deliveryAddress, MinAddressLen)
  /\ TextOk(b.customerName, MinNameLen)
  /\ PhoneOk(b.customerPhone)
  /\ TextOk(b.itemDescription, MinDescriptionLen)
  /\ ValueOk(b.orderValue)

\* req.body as the handler finds it: the sanitizers have replaced each text
\* field by its trimmed value
Sanitized(b) ==
  [pickupAddress |-> Trim(b.pickupAddress),
   deliveryAddress |-> Trim(b.deliveryAddress),
   customerName |-> Trim(b.customerName),
   customerPhone |-> Trim(b.customerPhone),
   itemDescription |-> Trim(b.itemDescription),
   orderValue |-> b.orderValue]

PlainBody ==
  [pickupAddress |-> "12 Main St",
   deliveryAddress |-> "9 Oak Road",
   customerName |-> "Al",
   customerPhone |-> "+1234567890",
   itemDescription |-> "Books",
   orderValue |-> <<500>>]

\* the bodies a vendor dashboard may post: a well-formed one, one whose pickup
\* address carries surrounding blanks, one without orderValue, and four that
\* break one rule each
Bodies ==
  {PlainBody,
   [PlainBody EXCEPT !.pickupAddress = " 12 Main St "],
   [PlainBody EXCEPT !.orderValue = <<>>],
   [PlainBody EXCEPT !.orderValue = <<-5>>],
   [PlainBody EXCEPT !.itemDescription = "Book"],
   [PlainBody EXCEPT !.customerName = "   "],
   [PlainBody EXCEPT !.customerPhone = "abcdefghij"]}

NoData == [none |-> TRUE]

VARIABLES orders, pending, acceptedBy, last, data, submitted,
          serverUp, published, replies, nwrites
rtvars == <<serverUp, published, replies, nwrites>>
VARIABLES availableOrders, myDeliveries, vendorOrders, received, users
dashvars == <<availableOrders, myDeliveries, vendorOrders, received>>
vars == <<orders, pending, acceptedBy, last, data, submitted, rtvars,
          dashvars, users>>

\* orders:     the persisted order rows, by id (ids are given in sequence)
\* pending:    the handlers suspended between their read and their update,
\*             each with the write it is about to issue
\* acceptedBy: per order, the partners an accept has reported success for
\* last:       the step just taken and the response it sent
\* data:       the data member of that response (NoData when it has none)
\* submitted:  per order, the body its creation request carried
\* serverUp:   the server process is running (FALSE after process.exit)
\* published:  the events emitted to rooms, in the order of emission
\* replies:    the socket handlers whose update has reached the database and
\*             whose continuation (emit, callback) has not run yet
\* nwrites:    the number of order updates the socket handlers have issued
\* availableOrders, myDeliveries: the two lists of the delivery dashboard
\* vendorOrders: the order list of the vendor dashboard
\* received:   per published event that is past the delivery dashboard, TRUE
\*             when its listener ran, FALSE when the dashboard missed it
\* users:      the user table
\* ------------------------------------------------------------------ events
Ev(step, op, caller, oid, code) ==
  [step |-> step, op |-> op, caller |-> caller, oid |-> oid, code |-> code]

Write(op, caller, oid, status, dropperId) ==
  [op |-> op, caller |-> caller, oid |-> oid, status |-> status,
   dropperId |-> dropperId]

\* authenticateToken followed by requireRole([role])
requireRole(c, role) ==
  IF c = ANON THEN "401"
  ELSE IF UserRole(c) # role THEN "403"
  ELSE "next"

Exists(o) == o \in DOMAIN orders

Update_VendorFromCaller(w) ==
  [orders EXCEPT ![w.oid].status = w.status,
                 ![w.oid].vendorId = w.caller,
                 ![w.oid].dropperId =
                     IF w.dropperId = NULL THEN @ ELSE w.dropperId]

\* prisma.order.update({ where: { id }, data })
Update(w) ==
  [orders EXCEPT ![w.oid].status = w.status,
                 ![w.oid].dropperId =
                     IF w.dropperId = NULL THEN @ ELSE w.dropperId]

Dirty_Never(P) == P

\* a write reaches the database while the handlers of P are suspended: a
\* stats computation among them has now seen a write between its queries
\* (clean is bookkeeping of the model, no handler reads it)
Dirty(P) ==
  {IF "clean" \in DOMAIN r THEN [r EXCEPT !.clean = FALSE] ELSE r : r \in P}

\* A handler's first step, up to its early return (RejectOn) or to the await
\* of its update (ProceedOn).  P is what is in flight apart from the request
\* being handled: all of pending for a request that arrives in the same step,
\* pending without the message for one that was under way.
RejectOn(P, op, c, o, code) ==
  /\ serverUp
  /\ pending' = P
  /\ last' = Ev("request", op, c, o, code)
  /\ data' = NoData
  /\ UNCHANGED <<orders, acceptedBy, submitted, rtvars, dashvars, users>>

ProceedOn(P, w) ==
  /\ serverUp
  /\ Cardinality(P \cup {w}) <= MaxInFlight
  /\ pending' = P \cup {w}
  /\ last' = Ev("request", w.op, w.caller, w.oid, "pending")
  /\ data' = NoData
  /\ UNCHANGED <<orders, acceptedBy, submitted, rtvars, dashvars, users>>

Reject(op, c, o, code) == RejectOn(pending, op, c, o, code)

Proceed(w) == ProceedOn(pending, w)

Commit(w, code) ==
  /\ serverUp
  /\ w \in pending
  /\ orders' = Update(w)
  /\ pending' = Dirty(pending \ {w})
  /\ last' = Ev("commit", w.op, w.caller, w.oid, code)
  /\ data' = orders'[w.oid]
  /\ UNCHANGED <<submitted, rtvars, dashvars, users>>

\* the members of the JSON body a REST step answers with: the validator
\* sends { errors }, the handlers { success, message } with data on success
ResponseKeys(ev) ==
  IF ev.op = "validateOrderCreation" THEN {"errors"}
  ELSE IF ev.code \in {"200", "201"} THEN {"success", "message", "data"}
  ELSE {"success", "message"}

\* ------------------------------------------------------- order controller
\* POST /vendor/create: requireRole, validateOrderCreation, then the handler
\* with its one await (prisma.order.create), hence one step.
createOrder(c, b) ==
  LET gate == requireRole(c, "VENDOR")
      body == Sanitized(b)
  IN
  IF gate # "next" THEN Reject("createOrder", c, 0, gate)
  ELSE IF ~validateOrderCreation(b)
       THEN Reject("validateOrderCreation", c, 0, "400")
  ELSE IF \/ body.pickupAddress = "" \/ body.deliveryAddress = ""
          \/ body.customerName = "" \/ body.customerPhone = ""
          \/ body.itemDescription = ""
       THEN Reject("createOrder", c, 0, "400")
  ELSE /\ serverUp
       /\ orders' = Append(orders,
            [status |-> "PENDING", vendorId |-> c, dropperId |-> NULL,
             pickupAddress |-> body.pickupAddress,
             deliveryAddress |-> body.deliveryAddress,
             customerName |-> body.customerName,
             customerPhone |-> body.customerPhone,
             itemDescription |-> body.itemDescription,
             orderValue |-> IF body.orderValue = <<>> THEN 0
                            ELSE body.orderValue[1]])
       /\ acceptedBy' = Append(acceptedBy, {})
       /\ submitted' = Append(submitted, b)
       /\ last' = Ev("commit", "createOrder", c, Len(orders) + 1, "201")
       /\ data' = orders'[Len(orders')]
       /\ pending' = Dirty(pending)
       /\ UNCHANGED <<rtvars, dashvars, users>>

\* GET /:id: behind authenticateToken only, any role, any vendor's order
getOrderById(c, o) ==
  IF c = ANON THEN Reject("getOrderById", c, o, "401")
  ELSE IF ~Exists(o) THEN Reject("getOrderById", c, o, "404")
  ELSE /\ serverUp
       /\ last' = Ev("commit", "getOrderById", c, o, "200")
       /\ data' = orders[o]
       /\ UNCHANGED <<orders, pending, acceptedBy, submitted, rtvars, dashvars, users>>

Owns_Anyone(order, c) == TRUE

\* findFirst({ where: { id, vendorId } })
Owns(order, c) == order.vendorId = c

updateOrderStatus(c, o, s) ==
  LET gate == requireRole(c, "VENDOR") IN
  IF gate # "next" THEN Reject("updateOrderStatus", c, o, gate)
  ELSE IF s = NoStatus THEN Reject("updateOrderStatus", c, o, "400")
  ELSE IF ~(Exists(o) /\ Owns(orders[o], c))
       THEN Reject("updateOrderStatus", c, o, "404")
  ELSE Proceed(Write("updateOrderStatus", c, o, s, NULL))

updateOrderStatusCommit(w) ==
  /\ w.op = "updateOrderStatus"
  /\ Commit(w, "200")
  /\ UNCHANGED acceptedBy

CancelNotAllowed_NoCheck(order) == FALSE

CancelNotAllowed(order) == order.status # "PENDING"

cancelOrder(c, o) ==
  LET gate == requireRole(c, "VENDOR") IN
  IF gate # "next" THEN Reject("cancelOrder", c, o, gate)
  ELSE IF ~(Exists(o) /\ Owns(orders[o], c))
       THEN Reject("cancelOrder", c, o, "404")
  ELSE IF CancelNotAllowed(orders[o]) THEN Reject("cancelOrder", c, o, "400")
  ELSE Proceed(Write("cancelOrder", c, o, "CANCELLED", NULL))

cancelOrderCommit(w) ==
  /\ w.op = "cancelOrder"
  /\ Commit(w, "200")
  /\ UNCHANGED acceptedBy

\* ---------------------------------------------------- delivery controller
Available_IgnoreStatus(order) == order.dropperId = NULL

Available(order) == order.status = "PENDING" /\ order.dropperId = NULL

acceptOrder(c, o) ==
  LET gate == requireRole(c, "DELIVERY_PARTNER") IN
  IF gate # "next" THEN Reject("acceptOrder", c, o, gate)
  ELSE IF ~(Exists(o) /\ Available(orders[o]))
       THEN Reject("acceptOrder", c, o, "404")
  ELSE Proceed(Write("acceptOrder", c, o, "ASSIGNED", c))

acceptOrderCommit(w) ==
  /\ w.op = "acceptOrder"
  /\ Commit(w, "200")
  /\ acceptedBy' = [acceptedBy EXCEPT ![w.oid] = @ \cup {w.dropperId}]

updateDeliveryStatus(c, o, s) ==
  LET gate == requireRole(c, "DELIVERY_PARTNER") IN
  IF gate # "next" THEN Reject("updateDeliveryStatus", c, o, gate)
  ELSE IF s = NoStatus THEN Reject("updateDeliveryStatus", c, o, "400")
  ELSE IF ~(Exists(o) /\ orders[o].dropperId = c)
       THEN Reject("updateDeliveryStatus", c, o, "404")
  ELSE Proceed(Write("updateDeliveryStatus", c, o, s, NULL))

updateDeliveryStatusCommit(w) ==
  /\ w.op = "updateDeliveryStatus"
  /\ Commit(w, "200")
  /\ UNCHANGED acceptedBy

InTransitOf_AnyStatus(order, c) == order.dropperId = c

\* findFirst({ where: { id, dropperId, status: 'IN_TRANSIT' } })
InTransitOf(order, c) == order.dropperId = c /\ order.status = "IN_TRANSIT"

completeDeliveryOn(P, c, o) ==
  LET gate == requireRole(c, "DELIVERY_PARTNER") IN
  IF gate # "next" THEN RejectOn(P, "completeDelivery", c, o, gate)
  ELSE IF ~(Exists(o) /\ InTransitOf(orders[o], c))
       THEN RejectOn(P, "completeDelivery", c, o, "404")
  ELSE ProceedOn(P, Write("completeDelivery", c, o, "DELIVERED", NULL))

completeDelivery(c, o) == completeDeliveryOn(pending, c, o)

completeDeliveryCommit(w) ==
  /\ w.op = "completeDelivery"
  /\ Commit(w, "200")
  /\ UNCHANGED acceptedBy

\* --------------------------------------------------------- socket handlers
SocketTaken(order) == order.status # "PENDING" \/ order.dropperId # NULL

\* The handler reads the order, then the user named by dropperId, then
\* updates.  No specification with this handler writes the user table, so
\* the user lookup gives the same answer wherever it runs between the order
\* read and the update, and it is taken together with the order read.

onOrderAccept(c, o, d) ==
  IF ~Exists(o) THEN Reject("order:accept", c, o, "ack_false")
  ELSE IF SocketTaken(orders[o]) THEN Reject("order:accept", c, o, "ack_false")
  ELSE IF d \notin Users THEN Reject("order:accept", c, o, "ack_false")
  ELSE Proceed(Write("order:accept", c, o, "ASSIGNED", d))

onOrderAcceptCommit(w) ==
  /\ w.op = "order:accept"
  /\ Commit(w, "ack_true")
  /\ acceptedBy' = [acceptedBy EXCEPT ![w.oid] = @ \cup {w.dropperId}]

onDeliveryStatusUpdate(c, o, s) ==
  IF ~Exists(o) THEN Reject("delivery:status-update", c, o, "dropped")
  ELSE Proceed(Write("delivery:status-update", c, o, s, NULL))

onDeliveryStatusUpdateCommit(w) ==
  /\ w.op = "delivery:status-update"
  /\ Commit(w, "silent")
  /\ UNCHANGED acceptedBy

onDeliveryCompleted(c, o) ==
  IF ~Exists(o) THEN Reject("delivery:completed", c, o, "dropped")
  ELSE Proceed(Write("delivery:completed", c, o, "DELIVERED", NULL))

onDeliveryCompletedCommit(w) ==
  /\ w.op = "delivery:completed"
  /\ Commit(w, "silent")
  /\ UNCHANGED acceptedBy

\* ------------------------------------------- socket handlers, step by step
\* The same three handlers with the update and the continuation after it as
\* separate steps, the rooms they emit to, and the arguments as they arrive:
\* 'order:accept' takes (orderId, dropperId, callback), so a client that
\* emits (orderId, ack) leaves the ack function in dropperId and callback
\* undefined.
ACKFN == "function"
AVAILABLE == "available-orders"
VENDOR_ROOM == "vendor"

SocketWrite(op, c, o, status, d, cb) ==
  [op |-> op, caller |-> c, oid |-> o, status |-> status, dropperId |-> d,
   cb |-> cb]

Pub(room, event, o, status, d, n) ==
  [room |-> room, event |-> event, oid |-> o, status |-> status,
   dropperId |-> d, n |-> n]

\* a rejected promise nobody handles: process.on('unhandledRejection') exits
Exit(op, c, o) ==
  /\ serverUp
  /\ serverUp' = FALSE
  /\ pending' = {}
  /\ replies' = {}
  /\ last' = Ev("request", op, c, o, "exit")
  /\ data' = NoData
  /\ UNCHANGED <<orders, acceptedBy, submitted, published, nwrites, dashvars,
                 users>>

\* callback(false, message) in the try block: with callback undefined the
\* call throws, the catch block calls callback again, and that throw leaves
\* the async handler rejected
Refuse(op, c, o, cb) ==
  IF cb THEN Reject(op, c, o, "ack_false") ELSE Exit(op, c, o)

\* await prisma.order.update(...) of a socket handler reaching the database
SocketUpdate(w) ==
  /\ serverUp
  /\ w \in pending
  /\ nwrites < MaxSocketWrites
  /\ orders' = Update(w)
  /\ pending' = Dirty(pending \ {w})
  /\ nwrites' = nwrites + 1
  /\ replies' = replies \cup
       {[op |-> w.op, caller |-> w.caller, oid |-> w.oid, cb |-> w.cb,
         row |-> orders'[w.oid], n |-> nwrites + 1]}
  /\ last' = Ev("request", w.op, w.caller, w.oid, "pending")
  /\ data' = NoData
  /\ UNCHANGED <<acceptedBy, submitted, serverUp, published, dashvars, users>>

socketOrderAccept(c, o, d, cb) ==
  IF ~Exists(o) THEN Refuse("order:accept", c, o, cb)
  ELSE IF SocketTaken(orders[o]) THEN Refuse("order:accept", c, o, cb)
  ELSE IF d \notin Users THEN Refuse("order:accept", c, o, cb)
  ELSE Proceed(SocketWrite("order:accept", c, o, "ASSIGNED", d, cb))

socketOrderAcceptUpdate(w) ==
  /\ w.op = "order:accept"
  /\ "cb" \in DOMAIN w
  /\ SocketUpdate(w)

\* the two emits, then callback(true, ...)
socketOrderAcceptResume(r) ==
  /\ serverUp
  /\ r \in replies
  /\ r.op = "order:accept"
  /\ Len(published) + 2 <= MaxPublished
  /\ published' = published \o
       << Pub(AVAILABLE, "order:accepted", r.oid, "none", NULL, r.n),
          Pub(VENDOR_ROOM, "delivery:status-changed", r.oid, r.row.status,
              r.row.dropperId, r.n) >>
  /\ data' = NoData
  /\ UNCHANGED <<orders, submitted, nwrites, dashvars, users>>
  /\ IF r.cb
       THEN /\ last' = Ev("commit", r.op, r.caller, r.oid, "ack_true")
            /\ acceptedBy' = [acceptedBy EXCEPT ![r.oid] = @ \cup {r.row.dropperId}]
            /\ replies' = replies \ {r}
            /\ UNCHANGED <<pending, serverUp>>
       ELSE /\ last' = Ev("commit", r.op, r.caller, r.oid, "exit")
            /\ serverUp' = FALSE
            /\ pending' = {}
            /\ replies' = {}
            /\ UNCHANGED acceptedBy

socketDeliveryStatusUpdate(c, o, s) ==
  IF ~Exists(o) THEN Reject("delivery:status-update", c, o, "dropped")
  ELSE Proceed(SocketWrite("delivery:status-update", c, o, s, NULL, FALSE))

socketDeliveryStatusUpdateUpdate(w) ==
  /\ w.op = "delivery:status-update"
  /\ "cb" \in DOMAIN w
  /\ SocketUpdate(w)

\* a continuation that emits one event to the vendor's room and returns
EmitToVendor(r, event) ==
  /\ serverUp
  /\ r \in replies
  /\ Len(published) < MaxPublished
  /\ published' = Append(published,
       Pub(VENDOR_ROOM, event, r.oid, r.row.status, r.row.dropperId, r.n))
  /\ replies' = replies \ {r}
  /\ last' = Ev("commit", r.op, r.caller, r.oid, "silent")
  /\ data' = NoData
  /\ UNCHANGED <<orders, pending, acceptedBy, submitted, serverUp, nwrites,
                 dashvars, users>>

socketDeliveryStatusUpdateResume(r) ==
  /\ r.op = "delivery:status-update"
  /\ EmitToVendor(r, "delivery:status-changed")

socketDeliveryCompletedOn(P, c, o) ==
  IF ~Exists(o) THEN RejectOn(P, "delivery:completed", c, o, "dropped")
  ELSE ProceedOn(P, SocketWrite("delivery:completed", c, o, "DELIVERED", NULL,
                                FALSE))

socketDeliveryCompleted(c, o) == socketDeliveryCompletedOn(pending, c, o)

socketDeliveryCompletedUpdate(w) ==
  /\ w.op = "delivery:completed"
  /\ "cb" \in DOMAIN w
  /\ SocketUpdate(w)

socketDeliveryCompletedResume(r) ==
  /\ r.op = "delivery:completed"
  /\ EmitToVendor(r, "delivery:completed")

\* 'order:created' and 'order:cancelled' arrive from a client and are passed
\* on to the available-orders room as they are
Relay(c, event, o) ==
  /\ serverUp
  /\ Len(published) < MaxPublished
  /\ published' = Append(published, Pub(AVAILABLE, event, o, "none", NULL, 0))
  /\ last' = Ev("commit", event, c, o, "silent")
  /\ data' = NoData
  /\ UNCHANGED <<orders, pending, acceptedBy, submitted, serverUp, replies,
                 nwrites, dashvars, users>>

socketOrderCreated(c, o) == Relay(c, "order:created", o)

socketOrderCancelled(c, o) == Relay(c, "order:cancelled", o)

\* -------------------------------------------------------------- statistics
\* where: { <column>: u, status: { in: statuses } }
Where(db, column, u, statuses) ==
  {o \in DOMAIN db : db[o][column] = u /\ db[o].status \in statuses}

\* prisma.order.count({ where })
Count(db, column, u, statuses) == Cardinality(Where(db, column, u, statuses))

RECURSIVE SumOrderValue(_, _)
SumOrderValue(db, ids) ==
  IF ids = {} THEN 0
  ELSE LET o == CHOOSE x \in ids : TRUE
       IN db[o].orderValue + SumOrderValue(db, ids \ {o})

\* prisma.order.aggregate({ where, _sum: { orderValue: true } })._sum.orderValue:
\* <<>> (null) when no row matches, else <<sum>>
Aggregate(db, column, u, statuses) ==
  LET ids == Where(db, column, u, statuses)
  IN IF ids = {} THEN <<>> ELSE <<SumOrderValue(db, ids)>>

\* x || 0
OrZero(x) == IF x = <<>> THEN 0 ELSE x[1]

\* the 20% commission; amounts are whole numbers
Commission(sum) == (sum * 20) \div 100

ActiveStatus == {"ASSIGNED", "PICKED_UP", "IN_TRANSIT"}

Delivered_AnyStatus == OrderStatus

\* status: 'DELIVERED'
Delivered == {"DELIVERED"}

Query(op, c, got) ==
  [op |-> op, caller |-> c, oid |-> 0, got |-> got, clean |-> TRUE]

\* a handler between two of its queries: the results so far are in q.got
Resume(q, result) ==
  /\ serverUp
  /\ pending' = (pending \ {q}) \cup {[q EXCEPT !.got = Append(@, result)]}
  /\ last' = Ev("request", q.op, q.caller, 0, "pending")
  /\ data' = NoData
  /\ UNCHANGED <<orders, acceptedBy, submitted, rtvars, dashvars, users>>

Respond(q, payload) ==
  /\ serverUp
  /\ pending' = pending \ {q}
  /\ last' = Ev("commit", q.op, q.caller, 0, "200")
  /\ data' = payload
  /\ UNCHANGED <<orders, acceptedBy, submitted, rtvars, dashvars, users>>

\* the totalEarnings a stats call of partner d computes on the rows db
EarningsOn(db, d) ==
  Commission(OrZero(Aggregate(db, "dropperId", d, Delivered)))

\* GET /delivery/stats: four queries, one await each, then the response
getDeliveryStats(c) ==
  LET gate == requireRole(c, "DELIVERY_PARTNER") IN
  IF gate # "next" THEN Reject("getDeliveryStats", c, 0, gate)
  ELSE Proceed(Query("getDeliveryStats", c,
         <<Count(orders, "dropperId", c, OrderStatus)>>))

getDeliveryStatsQuery(q) ==
  /\ q \in pending
  /\ q.op = "getDeliveryStats"
  /\ IF Len(q.got) = 1
       THEN Resume(q, Count(orders, "dropperId", q.caller, Delivered))
     ELSE IF Len(q.got) = 2
       THEN Resume(q, Count(orders, "dropperId", q.caller, ActiveStatus))
     ELSE Respond(q,
            [totalDeliveries |-> q.got[1],
             completedDeliveries |-> q.got[2],
             activeDeliveries |-> q.got[3],
             totalEarnings |-> EarningsOn(orders, q.caller),
             pendingEarnings |-> 0])

\* the totalRevenue a stats call of vendor v computes on the rows db
RevenueOn(db, v) == OrZero(Aggregate(db, "vendorId", v, Delivered))

\* GET /vendor/stats: four queries, one await each, then the response
getVendorStats(c) ==
  LET gate == requireRole(c, "VENDOR") IN
  IF gate # "next" THEN Reject("getVendorStats", c, 0, gate)
  ELSE Proceed(Query("getVendorStats", c,
         <<Count(orders, "vendorId", c, OrderStatus)>>))

getVendorStatsQuery(q) ==
  /\ q \in pending
  /\ q.op = "getVendorStats"
  /\ IF Len(q.got) = 1
       THEN Resume(q, Count(orders, "vendorId", q.caller, {"PENDING"}))
     ELSE IF Len(q.got) = 2
       THEN Resume(q, Count(orders, "vendorId", q.caller, Delivered))
     ELSE Respond(q,
            [totalOrders |-> q.got[1],
             pendingOrders |-> q.got[2],
             deliveredOrders |-> q.got[3],
             totalRevenue |-> RevenueOn(orders, q.caller)])

\* ------------------------------------------------------------- dashboards
\* One delivery dashboard and one vendor dashboard.  loadData sends its GET
\* requests at once (Promise.all) and sets the lists when all have answered;
\* until then the answers so far are in q.got.  The stats request of
\* loadData sets only the stats panel and is left out.
Item(db, o) ==
  [id |-> o, status |-> db[o].status, dropperId |-> db[o].dropperId]

\* the ids of S, latest created first (orderBy: { createdAt: 'desc' })
RECURSIVE Desc(_)
Desc(S) ==
  IF S = {} THEN <<>>
  ELSE LET m == CHOOSE x \in S : \A y \in S : y <= x
       IN <<m>> \o Desc(S \ {m})

findMany_AllRows(db, column, u, statuses) ==
  [i \in 1..Len(db) |-> Item(db, Len(db) + 1 - i)]

\* prisma.order.findMany({ where, orderBy: { createdAt: 'desc' } })
findMany(db, column, u, statuses) ==
  LET ids == Desc(Where(db, column, u, statuses))
  IN [i \in 1..Len(ids) |-> Item(db, ids[i])]

Load(c) == [op |-> "loadData", caller |-> c, oid |-> 0, got |-> <<>>,
            clean |-> TRUE]

loadData(c) == Proceed(Load(c))

\* one GET of a loadData in flight is answered
Answer(q, name, op, result) ==
  /\ serverUp
  /\ q \in pending
  /\ q.op = "loadData"
  /\ name \notin DOMAIN q.got
  /\ pending' = (pending \ {q}) \cup {[q EXCEPT !.got = @ @@ (name :> result)]}
  /\ last' = Ev("commit", op, q.caller, 0, "200")
  /\ data' = NoData
  /\ UNCHANGED <<orders, acceptedBy, submitted, rtvars, dashvars, users>>

\* GET /delivery/available
getAvailableOrders(q) ==
  /\ requireRole(q.caller, "DELIVERY_PARTNER") = "next"
  /\ Answer(q, "available", "getAvailableOrders",
            findMany(orders, "dropperId", NULL, {"PENDING"}))

\* GET /delivery/my-deliveries (the list is kept as a set: it is ordered by
\* updatedAt, which the rows of this model do not carry)
getMyDeliveries(q) ==
  /\ requireRole(q.caller, "DELIVERY_PARTNER") = "next"
  /\ Answer(q, "deliveries", "getMyDeliveries",
            {Item(orders, o) : o \in Where(orders, "dropperId", q.caller,
                                          OrderStatus)})

\* GET /vendor/my-orders
getVendorOrders(q) ==
  /\ requireRole(q.caller, "VENDOR") = "next"
  /\ Answer(q, "orders", "getVendorOrders",
            findMany(orders, "vendorId", q.caller, OrderStatus))

\* the continuation of loadData after Promise.all
Loaded(q) ==
  /\ serverUp
  /\ q \in pending
  /\ q.op = "loadData"
  /\ pending' = pending \ {q}
  /\ last' = Ev("commit", "loadData", q.caller, 0, "loaded")
  /\ data' = NoData
  /\ UNCHANGED <<orders, acceptedBy, submitted, rtvars, received, users>>

deliveryLoaded(q) ==
  /\ Loaded(q)
  /\ DOMAIN q.got = {"available", "deliveries"}
  /\ availableOrders' = q.got["available"]
  /\ myDeliveries' = q.got["deliveries"]
  /\ UNCHANGED vendorOrders

vendorLoaded(q) ==
  /\ Loaded(q)
  /\ DOMAIN q.got = {"orders"}
  /\ vendorOrders' = q.got["orders"]
  /\ UNCHANGED <<availableOrders, myDeliveries>>

\* the next published event reaches the delivery dashboard's socket, which
\* has joined the available-orders room: 'order:created' prepends the order
\* it carries, 'order:accepted' and 'order:cancelled' filter it out
dashboardReceive ==
  /\ Len(received) < Len(published)
  /\ received' = Append(received, TRUE)
  /\ LET e == published[Len(received) + 1] IN
     /\ availableOrders' =
          IF e.room # AVAILABLE THEN availableOrders
          ELSE IF e.event = "order:created"
            THEN <<[id |-> e.oid, status |-> "PENDING", dropperId |-> NULL]>>
                 \o availableOrders
          ELSE SelectSeq(availableOrders, LAMBDA x : x.id # e.oid)
     /\ last' = Ev("commit", "dashboard", "d1", e.oid, "silent")
  /\ data' = NoData
  /\ UNCHANGED <<orders, pending, acceptedBy, submitted, rtvars, myDeliveries,
                 vendorOrders, users>>

\* the event is emitted while the dashboard's socket is disconnected
dashboardMiss ==
  /\ Len(received) < Len(published)
  /\ received' = Append(received, FALSE)
  /\ last' = Ev("commit", "dashboard", "d1", published[Len(received) + 1].oid,
                "missed")
  /\ data' = NoData
  /\ UNCHANGED <<orders, pending, acceptedBy, submitted, rtvars, availableOrders,
                 myDeliveries, vendorOrders, users>>

\* socket.emit('delivery:completed', { orderId }) and the POST of
\* ordersAPI.completeDelivery(orderId), both under way to the server
Sent(c, o) ==
  {[op |-> "emit delivery:completed", caller |-> c, oid |-> o],
   [op |-> "POST complete", caller |-> c, oid |-> o]}

\* The partner presses "complete" on a delivery the dashboard shows as
\* IN_TRANSIT; the row shown is the persisted one (the list is fresh).
handleCompleteDelivery(c, o) ==
  /\ Exists(o)
  /\ orders[o].dropperId = c
  /\ orders[o].status = "IN_TRANSIT"
  /\ Cardinality(pending \cup Sent(c, o)) <= MaxInFlight
  /\ pending' = pending \cup Sent(c, o)
  /\ last' = Ev("request", "handleCompleteDelivery", c, o, "sent")
  /\ data' = NoData
  /\ UNCHANGED <<orders, acceptedBy, submitted, rtvars, dashvars, users>>

\* the emitted event reaches the server's 'delivery:completed' handler
emitArrives(m) ==
  /\ m \in pending
  /\ m.op = "emit delivery:completed"
  /\ socketDeliveryCompletedOn(pending \ {m}, m.caller, m.oid)

\* the POST reaches completeDelivery
postArrives(m) ==
  /\ m \in pending
  /\ m.op = "POST complete"
  /\ completeDeliveryOn(pending \ {m}, m.caller, m.oid)

\* ------------------------------------------------------------ registration
\* the users of the other sections, registered beforehand under their ids
Registered == <<"v1", "v2", "d1", "d2">>

NoPassword == "undefined"

findUnique_Nobody(table, email) == {}

\* prisma.user.findUnique({ where: { email } })
findUnique(table, email) == {i \in DOMAIN table : table[i].email = email}

\* the unique index on email refuses the insert
UniqueViolation(table, email) == \E i \in DOMAIN table : table[i].email = email

register(email, role, password) ==
  IF role \notin {"VENDOR", "DELIVERY_PARTNER"}
    THEN Reject("register", email, 0, "400")
  ELSE IF findUnique(users, email) # {}
    THEN Reject("register", email, 0, "400")
  ELSE Proceed([op |-> "register", caller |-> email, oid |-> 0, role |-> role,
                password |-> password, clean |-> TRUE])

\* bcrypt.hash, prisma.user.create, jwt.sign and the 201; a throw of hash (no
\* password) or of create ends in the catch block's 500
registerCreate(w) ==
  /\ serverUp
  /\ w \in pending
  /\ w.op = "register"
  /\ IF w.password = NoPassword \/ UniqueViolation(users, w.caller)
       THEN /\ users' = users
            /\ pending' = pending \ {w}
            /\ last' = Ev("commit", "register", w.caller, 0, "500")
            /\ data' = NoData
       ELSE /\ users' = Append(users, [email |-> w.caller, role |-> w.role])
            /\ pending' = Dirty(pending \ {w})
            /\ last' = Ev("commit", "register", w.caller, Len(users) + 1, "201")
            /\ data' = [token |-> [id |-> Len(users) + 1, email |-> w.caller,
                                   role |-> w.role],
                        user |-> [id |-> Len(users) + 1, email |-> w.caller,
                                  role |-> w.role]]
  /\ UNCHANGED <<orders, acceptedBy, submitted, rtvars, dashvars>>

\* ----------------------------------------------------------- specification
Init ==
  /\ orders = <<>>
  /\ pending = {}
  /\ acceptedBy = <<>>
  /\ last = Ev("commit", "listen", ANON, 0, "silent")
  /\ data = NoData
  /\ submitted = <<>>
  /\ serverUp = TRUE
  /\ published = <<>>
  /\ replies = {}
  /\ nwrites = 0
  /\ availableOrders = <<>>
  /\ myDeliveries = {}
  /\ vendorOrders = <<>>
  /\ received = <<>>
  /\ users = [i \in DOMAIN Registered |->
                [email |-> Registered[i], role |-> UserRole(Registered[i])]]

Next ==
  \/ \E c \in Callers : Len(orders) < MaxOrders /\ createOrder(c, PlainBody)
  \/ \E c \in Callers, o \in OrderIds, s \in StatusArgs \cup {NoStatus} :
       updateOrderStatus(c, o, s)
  \/ \E w \in pending : updateOrderStatusCommit(w)
  \/ \E c \in Callers, o \in OrderIds : cancelOrder(c, o)
  \/ \E w \in pending : cancelOrderCommit(w)
  \/ \E c \in Callers, o \in OrderIds : acceptOrder(c, o)
  \/ \E w \in pending : acceptOrderCommit(w)
  \/ \E c \in Callers, o \in OrderIds, s \in StatusArgs \cup {NoStatus} :
       updateDeliveryStatus(c, o, s)
  \/ \E w \in pending : updateDeliveryStatusCommit(w)
  \/ \E c \in Callers, o \in OrderIds : completeDelivery(c, o)
  \/ \E w \in pending : completeDeliveryCommit(w)
  \/ \E c \in SocketClients, o \in OrderIds, d \in DropperArgs :
       onOrderAccept(c, o, d)
  \/ \E w \in pending : onOrderAcceptCommit(w)
  \/ \E c \in SocketClients, o \in OrderIds, s \in StatusArgs :
       onDeliveryStatusUpdate(c, o, s)
  \/ \E w \in pending : onDeliveryStatusUpdateCommit(w)
  \/ \E c \in SocketClients, o \in OrderIds : onDeliveryCompleted(c, o)
  \/ \E w \in pending : onDeliveryCompletedCommit(w)

Spec == Init /\ [][Next]_vars

\* The vendor's side alone: creation with every body of Bodies, fetch by id,
\* status patch and cancellation.
VendorCallers == {"v1", "v2", "d1", ANON}

NextVendor ==
  \/ \E c \in VendorCallers \ {ANON}, b \in Bodies :
       Len(orders) < MaxOrders /\ createOrder(c, b)
  \/ \E c \in VendorCallers, o \in OrderIds : getOrderById(c, o)
  \/ \E c \in VendorCallers \ {ANON}, o \in OrderIds,
        s \in StatusArgs \cup {NoStatus} : updateOrderStatus(c, o, s)
  \/ \E w \in pending : updateOrderStatusCommit(w)
  \/ \E c \in VendorCallers \ {ANON}, o \in OrderIds : cancelOrder(c, o)
  \/ \E w \in pending : cancelOrderCommit(w)

SpecVendor == Init /\ [][NextVendor]_vars

\* The statistics of one vendor and one partner over up to MaxStatsOrders
\* orders of value 500 or 0, carried through the REST delivery endpoints.
StatsOrderIds == 1..MaxStatsOrders
StatsBodies == {PlainBody, [PlainBody EXCEPT !.orderValue = <<>>]}
StatsVendors == {"v1"}
StatsDroppers == {"d1"}

NextStats ==
  \/ \E c \in StatsVendors, b \in StatsBodies :
       Len(orders) < MaxStatsOrders /\ createOrder(c, b)
  \/ \E c \in StatsDroppers, o \in StatsOrderIds : acceptOrder(c, o)
  \/ \E w \in pending : acceptOrderCommit(w)
  \/ \E c \in StatsDroppers, o \in StatsOrderIds,
        s \in {"PICKED_UP", "IN_TRANSIT"} : updateDeliveryStatus(c, o, s)
  \/ \E w \in pending : updateDeliveryStatusCommit(w)
  \/ \E c \in StatsDroppers, o \in StatsOrderIds : completeDelivery(c, o)
  \/ \E w \in pending : completeDeliveryCommit(w)
  \/ \E c \in StatsDroppers : getDeliveryStats(c)
  \/ \E q \in pending : getDeliveryStatsQuery(q)
  \/ \E c \in StatsVendors : getVendorStats(c)
  \/ \E q \in pending : getVendorStatsQuery(q)

SpecStats == Init /\ [][NextStats]_vars

\* The real-time side: one vendor and one partner on the REST endpoints, the
\* partner's dashboard and a client that never logged in on the socket.
RTVendors == {"v1"}
RTDroppers == {"d1"}
RTClients == {"d1"}
RTStatusArgs == {"PICKED_UP", "IN_TRANSIT"}
\* (dropperId, callback present) as 'order:accept' receives them: all three
\* arguments, no callback, and the dashboard's (orderId, ack)
AcceptArgs == {<<"d1", TRUE>>, <<"d1", FALSE>>, <<ACKFN, FALSE>>}

NextRT ==
  \/ \E c \in RTVendors : Len(orders) < MaxOrders /\ createOrder(c, PlainBody)
  \/ \E c \in RTDroppers, o \in OrderIds : acceptOrder(c, o)
  \/ \E w \in pending : acceptOrderCommit(w)
  \/ \E c \in RTDroppers, o \in OrderIds, s \in RTStatusArgs :
       updateDeliveryStatus(c, o, s)
  \/ \E w \in pending : updateDeliveryStatusCommit(w)
  \/ \E c \in RTClients, o \in OrderIds, a \in AcceptArgs :
       socketOrderAccept(c, o, a[1], a[2])
  \/ \E w \in pending : socketOrderAcceptUpdate(w)
  \/ \E r \in replies : socketOrderAcceptResume(r)
  \/ \E c \in RTClients, o \in OrderIds, s \in RTStatusArgs :
       socketDeliveryStatusUpdate(c, o, s)
  \/ \E w \in pending : socketDeliveryStatusUpdateUpdate(w)
  \/ \E r \in replies : socketDeliveryStatusUpdateResume(r)
  \/ \E c \in RTClients, o \in OrderIds : socketDeliveryCompleted(c, o)
  \/ \E w \in pending : socketDeliveryCompletedUpdate(w)
  \/ \E r \in replies : socketDeliveryCompletedResume(r)
  \/ \E o \in OrderIds : socketOrderCreated(ANON, o)
  \/ \E o \in OrderIds : socketOrderCancelled(ANON, o)

SpecRT == Init /\ [][NextRT]_vars

\* The dashboards: the vendor dashboard of v1 creates and cancels over REST
\* and then emits the socket event, as handleCreateOrder and
\* handleCancelOrder do; the delivery dashboard of d1 accepts over REST.
\* the vendor dashboard emits once per creation and per cancellation
Emitted(event, o) ==
  \E i \in DOMAIN published :
    published[i].event = event /\ published[i].oid = o

NextDashboards ==
  \/ Len(orders) < MaxOrders /\ createOrder("v1", PlainBody)
  \/ \E o \in DOMAIN orders :
       ~Emitted("order:created", o) /\ socketOrderCreated("v1", o)
  \/ \E o \in OrderIds : cancelOrder("v1", o)
  \/ \E w \in pending : cancelOrderCommit(w)
  \/ \E o \in DOMAIN orders :
       /\ orders[o].status = "CANCELLED"
       /\ ~Emitted("order:cancelled", o)
       /\ socketOrderCancelled("v1", o)
  \/ \E o \in OrderIds : acceptOrder("d1", o)
  \/ \E w \in pending : acceptOrderCommit(w)
  \/ \E c \in {"v1", "d1"} : loadData(c)
  \/ \E q \in pending : getAvailableOrders(q)
  \/ \E q \in pending : getMyDeliveries(q)
  \/ \E q \in pending : getVendorOrders(q)
  \/ \E q \in pending : deliveryLoaded(q)
  \/ \E q \in pending : vendorLoaded(q)
  \/ dashboardReceive
  \/ dashboardMiss

SpecDashboards == Init /\ [][NextDashboards]_vars

\* The available-orders query next to the writes that decide what is
\* available: creation, cancellation, the vendor's status PATCH, acceptance.
NextAvailable ==
  \/ Len(orders) < MaxOrders /\ createOrder("v1", PlainBody)
  \/ \E o \in OrderIds : cancelOrder("v1", o)
  \/ \E w \in pending : cancelOrderCommit(w)
  \/ \E o \in OrderIds, s \in StatusArgs : updateOrderStatus("v1", o, s)
  \/ \E w \in pending : updateOrderStatusCommit(w)
  \/ \E o \in OrderIds : acceptOrder("d1", o)
  \/ \E w \in pending : acceptOrderCommit(w)
  \/ loadData("d1")
  \/ \E q \in pending : getAvailableOrders(q)
  \/ \E q \in pending : getMyDeliveries(q)
  \/ \E q \in pending : deliveryLoaded(q)

SpecAvailable == Init /\ [][NextAvailable]_vars

\* One partner's dashboard completing its delivery: the order is brought to
\* IN_TRANSIT over the REST endpoints, then completed from the dashboard.
NextComplete ==
  \/ Len(orders) < MaxOrders /\ createOrder("v1", PlainBody)
  \/ \E o \in OrderIds : acceptOrder("d1", o)
  \/ \E w \in pending : acceptOrderCommit(w)
  \/ \E o \in OrderIds, s \in RTStatusArgs : updateDeliveryStatus("d1", o, s)
  \/ \E w \in pending : updateDeliveryStatusCommit(w)
  \/ \E o \in OrderIds : handleCompleteDelivery("d1", o)
  \/ \E m \in pending : emitArrives(m)
  \/ \E w \in pending : socketDeliveryCompletedUpdate(w)
  \/ \E r \in replies : socketDeliveryCompletedResume(r)
  \/ \E m \in pending : postArrives(m)
  \/ \E w \in pending : completeDeliveryCommit(w)

SpecComplete == Init /\ [][NextComplete]_vars

\* Registration alone: a registered email and two new ones, the two roles
\* that may register and ADMIN, with and without a password.
Emails == {"v1", "n1", "n2"}
RoleArgs == {"VENDOR", "DELIVERY_PARTNER", "ADMIN"}
Passwords == {"secret", NoPassword}

NextAuth ==
  \/ \E e \in Emails, r \in RoleArgs, p \in Passwords :
       Len(users) < MaxUsers /\ register(e, r, p)
  \/ \E w \in pending : registerCreate(w)

SpecAuth == Init /\ [][NextAuth]_vars

TypeOK ==
  /\ Len(orders) <= MaxOrders
  /\ Cardinality(pending) <= MaxInFlight

\* ------------------------------------------------------------------ claims
Edges ==
  {<<"PENDING", "ASSIGNED">>, <<"PENDING", "CANCELLED">>,
   <<"ASSIGNED", "PICKED_UP">>, <<"PICKED_UP", "IN_TRANSIT">>,
   <<"IN_TRANSIT", "DELIVERED">>}
AcceptOps == {"acceptOrder", "order:accept"}
DeliveryOps ==
  {"updateDeliveryStatus", "completeDelivery", "delivery:status-update",
   "delivery:completed"}
SuccessCodes == {"200", "201", "ack_true"}
ErrorCodes == {"400", "401", "403", "404", "ack_false"}

\* C1: of the accept requests for one order, by different delivery partners,
\* exactly one reports success: at most one partner is ever told that the
\* order is theirs.
C1_ExactlyOneAcceptSucceeds ==
  \A o \in DOMAIN orders : Cardinality(acceptedBy[o]) <= 1

\* C2: in every reachable state and for every order, dropperId is null if and
\* only if status is PENDING.
C2_DropperNullIffPending ==
  \A o \in DOMAIN orders :
    (orders[o].dropperId = NULL) <=> (orders[o].status = "PENDING")

\* C3: every committed change of an order's status is one of the five edges
\* of the transition table; any other requested change leaves the order
\* unchanged.
C3_OnlyTableEdges ==
  [][\A o \in DOMAIN orders :
       orders'[o].status # orders[o].status
         => <<orders[o].status, orders'[o].status>> \in Edges]_vars

\* C4: once an order is DELIVERED or CANCELLED no later operation changes its
\* status.
C4_TerminalStatusFinal ==
  [][\A o \in DOMAIN orders :
       orders[o].status \in {"DELIVERED", "CANCELLED"}
         => orders'[o].status = orders[o].status]_vars

\* C5: an order's dropperId is written at most once: once it is a partner's
\* id no step changes it.
C5_DropperWrittenOnce ==
  [][\A o \in DOMAIN orders :
       orders[o].dropperId # NULL
         => orders'[o].dropperId = orders[o].dropperId]_vars

\* C6: a status advance or completion requested by a caller who is not the
\* order's dropperId changes no order and reports no success.
C6_OnlyAssigneeActs ==
  [][(/\ last'.op \in DeliveryOps
      /\ last'.oid \in DOMAIN orders
      /\ orders[last'.oid].dropperId # last'.caller)
       => (orders' = orders /\ last'.code \notin SuccessCodes)]_vars

\* C7: a cancel request by the owning vendor that finds the order not PENDING
\* is answered with an error, schedules no write and leaves every order as it
\* was.
C7_CancelNonPendingRejected ==
  [][(/\ last'.step = "request"
      /\ last'.op = "cancelOrder"
      /\ last'.oid \in DOMAIN orders
      /\ orders[last'.oid].vendorId = last'.caller
      /\ orders[last'.oid].status # "PENDING")
       => (/\ last'.code = "400"
           /\ orders' = orders
           /\ pending' = pending)]_vars

C7_Witness ==
  /\ last.step = "request"
  /\ last.op = "cancelOrder"
  /\ last.code = "400"
  /\ last.oid \in DOMAIN orders
  /\ orders[last.oid].vendorId = last.caller
  /\ orders[last.oid].status \in {"ASSIGNED", "DELIVERED"}

\* C8: the PENDING precondition is re-checked against the persisted order at
\* commit time: a cancel never commits onto an order that an accept has
\* assigned in the meantime, and an accept never commits onto an order that a
\* cancel has cancelled in the meantime.
C8_PendingRecheckedAtCommit ==
  [][/\ (last'.step = "commit" /\ last'.op = "cancelOrder")
        => (/\ orders[last'.oid].status # "ASSIGNED"
            /\ orders'[last'.oid].dropperId = NULL)
     /\ (last'.step = "commit" /\ last'.op \in AcceptOps)
        => orders[last'.oid].status # "CANCELLED"]_vars

\* C9: an order is created or cancelled only by a VENDOR caller, and moved to
\* ASSIGNED, PICKED_UP, IN_TRANSIT or DELIVERED only by a DELIVERY_PARTNER
\* caller.
C9_RoleMatchesActor ==
  [][/\ Len(orders') # Len(orders) => UserRole(last'.caller) = "VENDOR"
     /\ \A o \in DOMAIN orders :
          orders'[o].status # orders[o].status
            => IF orders'[o].status = "CANCELLED"
               THEN UserRole(last'.caller) = "VENDOR"
               ELSE orders'[o].status = "PENDING"
                    \/ UserRole(last'.caller) = "DELIVERY_PARTNER"]_vars

C11_VendorIdImmutable ==
  [][/\ \A o \in DOMAIN orders : orders'[o].vendorId = orders[o].vendorId
     /\ Len(orders') > Len(orders)
          => orders'[Len(orders')].vendorId = last'.caller]_vars

C11_Witness ==
  /\ last.step = "commit"
  /\ last.op \in AcceptOps \cup DeliveryOps
  /\ last.caller # orders[last.oid].vendorId
  /\ orders[last.oid].vendorId \in Vendors
  /\ orders[last.oid].status = "DELIVERED"

\* C12: an order fetched by id right after its creation carries the six
\* fields exactly as they were submitted, status PENDING and a null
\* dropperId under the generated id; and an order is PENDING only from its
\* creation on, no other step brings an order into PENDING.
C12_CreateFetchRoundTrip ==
  [][/\ ( /\ last.op = "createOrder" /\ last.code = "201"
          /\ last'.op = "getOrderById" /\ last'.code = "200"
          /\ last'.oid = last.oid )
        => /\ data'.pickupAddress = submitted[last.oid].pickupAddress
           /\ data'.deliveryAddress = submitted[last.oid].deliveryAddress
           /\ data'.customerName = submitted[last.oid].customerName
           /\ data'.customerPhone = submitted[last.oid].customerPhone
           /\ data'.itemDescription = submitted[last.oid].itemDescription
           /\ submitted[last.oid].orderValue # <<>>
                => data'.orderValue = submitted[last.oid].orderValue[1]
           /\ last.oid = Len(orders)
           /\ data'.status = "PENDING"
           /\ data'.dropperId = NULL
     /\ \A o \in DOMAIN orders :
          orders'[o].status = "PENDING" => orders[o].status = "PENDING"
     /\ Len(orders') > Len(orders)
          => last'.op = "createOrder" /\ orders'[Len(orders')].status = "PENDING"
    ]_vars

\* the sum of orderValue over the DELIVERED rows of db whose column field
\* holds user u, row by row
RECURSIVE DeliveredValue(_, _, _)
DeliveredValue(db, field, u) ==
  IF db = <<>> THEN 0
  ELSE (IF Head(db)[field] = u /\ Head(db).status = "DELIVERED"
          THEN Head(db).orderValue ELSE 0)
       + DeliveredValue(Tail(db), field, u)

\* C13: the totalEarnings a partner's stats call returns is 20% of the value
\* of the DELIVERED orders that carry the partner as dropperId, and the
\* totalRevenue of a vendor's stats call is the value of the vendor's
\* DELIVERED orders; the step that brings an order of value n to DELIVERED
\* raises its partner's totalEarnings by 20% of n (100 for 500) and its
\* vendor's totalRevenue by n.
C13_StatsAreDeliveredValue ==
  [][/\ (last'.op = "getDeliveryStats" /\ last'.code = "200")
        => data'.totalEarnings * 100
             = 20 * DeliveredValue(orders', "dropperId", last'.caller)
     /\ (last'.op = "getVendorStats" /\ last'.code = "200")
        => data'.totalRevenue
             = DeliveredValue(orders', "vendorId", last'.caller)
     /\ \A o \in DOMAIN orders :
          (orders[o].status # "DELIVERED" /\ orders'[o].status = "DELIVERED")
          => LET d == orders'[o].dropperId
                 v == orders'[o].vendorId
                 n == orders'[o].orderValue
             IN /\ d \in Droppers
                     => EarningsOn(orders', d) * 100
                          = EarningsOn(orders, d) * 100 + 20 * n
                /\ RevenueOn(orders', v) = RevenueOn(orders, v) + n
    ]_vars

C13_Witness ==
  /\ last.op = "getDeliveryStats"
  /\ last.code = "200"
  /\ data.totalEarnings = 100
  /\ data.completedDeliveries = 1
  /\ Len(orders) = 2
  /\ \E o \in DOMAIN orders : orders[o].status \in ActiveStatus

\* the numbers of vendor v on the rows db, counted row by row
RECURSIVE RowsWith(_, _, _)
RowsWith(db, v, statuses) ==
  IF db = <<>> THEN 0
  ELSE (IF Head(db).vendorId = v /\ Head(db).status \in statuses THEN 1 ELSE 0)
       + RowsWith(Tail(db), v, statuses)

VendorNumbers(db, v) ==
  [totalOrders |-> RowsWith(db, v, OrderStatus),
   pendingOrders |-> RowsWith(db, v, {"PENDING"}),
   deliveredOrders |-> RowsWith(db, v, {"DELIVERED"}),
   totalRevenue |-> DeliveredValue(db, "vendorId", v)]

C15_SocketFailureSwallowed == serverUp

\* no handler is between two of its steps
Quiescent == serverUp /\ pending = {} /\ replies = {}

\* C16: once the handlers have run to their end, every order whose
\* acceptance was reported to a partner (REST 200 or socket ack) has been
\* announced as accepted in the available-orders room and, as an ASSIGNED
\* order with its dropper, in the vendor's room.
C16_AcceptancePublished ==
  Quiescent =>
    \A o \in DOMAIN orders :
      acceptedBy[o] # {} =>
        /\ \E i \in DOMAIN published :
             /\ published[i].room = AVAILABLE
             /\ published[i].event = "order:accepted"
             /\ published[i].oid = o
        /\ \E i \in DOMAIN published :
             /\ published[i].room = VENDOR_ROOM
             /\ published[i].oid = o
             /\ published[i].status = "ASSIGNED"
             /\ published[i].dropperId \in acceptedBy[o]

\* C17: once the handlers have run to their end, an order that stands at
\* PICKED_UP, IN_TRANSIT or DELIVERED has been published to its vendor's
\* room with that status, whichever path wrote it.
C17_AdvancePublished ==
  Quiescent =>
    \A o \in DOMAIN orders :
      orders[o].status \in {"PICKED_UP", "IN_TRANSIT", "DELIVERED"} =>
        \E i \in DOMAIN published :
          /\ published[i].room = VENDOR_ROOM
          /\ published[i].oid = o
          /\ published[i].status = orders[o].status

\* C18: an event is published only for a change the persisted order has
\* gone through: 'order:created' for an order that exists, 'order:cancelled'
\* for an order that is CANCELLED, the acceptance and status events for an
\* update a socket handler has written.
C18_PublishedAfterCommit ==
  [][\A i \in DOMAIN published' \ DOMAIN published :
       LET e == published'[i] IN
       /\ e.oid \in DOMAIN orders'
       /\ e.event = "order:cancelled" => orders'[e.oid].status = "CANCELLED"
       /\ e.event \notin {"order:created", "order:cancelled"}
            => e.n \in 1..nwrites'
    ]_vars

\* C19: in the vendor's room the events about one order appear in the order
\* of their updates: an event is never emitted after the event of a later
\* update of the same order.
C19_PublishedInCommitOrder ==
  [][\A i \in DOMAIN published' \ DOMAIN published :
       \A j \in DOMAIN published :
         ( /\ published'[i].room = VENDOR_ROOM
           /\ published[j].room = VENDOR_ROOM
           /\ published[j].oid = published'[i].oid )
         => published[j].n < published'[i].n
    ]_vars

RestCodes == {"200", "201", "400", "401", "403", "404"}

\* C20: the body of every REST response has the members success and message
\* and beyond them only data and error; a creation request whose body fails
\* validation is answered 400 in that shape and adds no order.
C20_ResponseEnvelope ==
  [][/\ last'.code \in RestCodes
        => /\ {"success", "message"} \subseteq ResponseKeys(last')
           /\ ResponseKeys(last') \subseteq {"success", "message", "data", "error"}
     /\ last'.op = "validateOrderCreation"
        => last'.code = "400" /\ orders' = orders
    ]_vars

\* the persisted rows a dashboard list should show, read row by row from
\* the latest order down
RECURSIVE PersistedAvailable(_, _)
PersistedAvailable(db, n) ==
  IF n = 0 THEN <<>>
  ELSE (IF db[n].status = "PENDING" /\ db[n].dropperId = NULL
          THEN <<[id |-> n, status |-> db[n].status, dropperId |-> NULL]>>
          ELSE <<>>)
       \o PersistedAvailable(db, n - 1)

RECURSIVE PersistedOf(_, _, _)
PersistedOf(db, n, v) ==
  IF n = 0 THEN <<>>
  ELSE (IF db[n].vendorId = v
          THEN <<[id |-> n, status |-> db[n].status,
                  dropperId |-> db[n].dropperId]>>
          ELSE <<>>)
       \o PersistedOf(db, n - 1, v)

PersistedAssigned(db, d) ==
  {[id |-> o, status |-> db[o].status, dropperId |-> d] :
     o \in {x \in DOMAIN db : db[x].dropperId = d}}

\* C21: when a loadData that no order write fell into completes, the
\* delivery dashboard's availableOrders are the persisted PENDING unassigned
\* orders and its myDeliveries the persisted orders assigned to the partner,
\* and the vendor dashboard's orders are the vendor's persisted orders,
\* whatever broadcasts the dashboard handled or missed before.
C21_FetchShowsPersisted ==
  [][\A q \in pending :
       ( /\ q.op = "loadData" /\ q.clean
         /\ pending' = pending \ {q}
         /\ last'.op = "loadData" /\ last'.caller = q.caller )
       => /\ q.caller \in Droppers
             => /\ availableOrders' = PersistedAvailable(orders', Len(orders'))
                /\ myDeliveries' = PersistedAssigned(orders', q.caller)
          /\ q.caller \in Vendors
             => vendorOrders' = PersistedOf(orders', Len(orders'), q.caller)
    ]_vars

C21_Witness ==
  /\ last.op = "loadData"
  /\ last.caller = "d1"
  /\ \E i \in DOMAIN received :
       ~received[i] /\ published[i].event = "order:cancelled"
  /\ \E i \in DOMAIN received :
       received[i] /\ published[i].event = "order:created"
  /\ availableOrders = <<>>
  /\ orders[1].status = "CANCELLED"

\* what a completeDelivery request of caller c for order o does, judged by
\* the row it reads
CompleteReadOutcome(c, o) ==
  IF o \in DOMAIN orders /\ orders[o].dropperId = c
                         /\ orders[o].status = "IN_TRANSIT"
    THEN /\ last'.code = "pending"
         /\ \E w \in pending' :
              w.op = "completeDelivery" /\ w.caller = c /\ w.oid = o
                /\ w.status = "DELIVERED"
         /\ orders' = orders
    ELSE /\ last'.code = "404"
         /\ orders' = orders
         /\ pending' = pending

CompleteWrites ==
  /\ (last'.op = "completeDelivery" /\ last'.step = "commit")
       => /\ last'.code = "200"
          /\ orders'[last'.oid].status = "DELIVERED"
          /\ \A o \in DOMAIN orders :
               o # last'.oid => orders'[o] = orders[o]
  /\ \A w \in pending' \ pending :
       w.op = "completeDelivery"
         => last'.op = "completeDelivery" /\ last'.step = "request"
              /\ last'.code = "pending"

\* C22: a completeDelivery request that reaches its read (the caller holds a
\* delivery partner's token) sets the order to DELIVERED if and only if the
\* row it reads has dropperId equal to the caller and status IN_TRANSIT;
\* otherwise it answers 404 and leaves the order unchanged.
C22_CompleteIffInTransit ==
  [][ /\ (last'.op = "completeDelivery" /\ last'.step = "request"
            /\ last' # last /\ last'.caller \in Droppers)
         => CompleteReadOutcome(last'.caller, last'.oid)
      /\ CompleteWrites
    ]_vars

C22_Witness ==
  /\ last.op = "completeDelivery"
  /\ last.step = "commit"
  /\ last.caller \in Droppers
  /\ orders[last.oid].status = "DELIVERED"
  /\ orders[last.oid].dropperId = last.caller

NotOwned(c, o) == o \in DOMAIN orders /\ orders[o].vendorId # c

Untouched == orders' = orders /\ pending' = pending

\* every cancellation or status change a vendor's request commits is of an
\* order of that vendor
VendorWritesOwn ==
  (last'.step = "commit" /\ last'.op \in {"cancelOrder", "updateOrderStatus"})
    => orders[last'.oid].vendorId = last'.caller

\* C23 (as stated): a cancel or status-update request of a vendor for an
\* order whose vendorId is not the caller's id is answered 404 and leaves the
\* order unchanged.
C23_NotOwned404 ==
  [][ /\ \A c \in Vendors, o \in OrderIds :
           (NotOwned(c, o) /\ cancelOrder(c, o))
             => last'.code = "404" /\ Untouched
      /\ \A c \in Vendors, o \in OrderIds, s \in StatusArgs \cup {NoStatus} :
           (NotOwned(c, o) /\ updateOrderStatus(c, o, s))
             => last'.code = "404" /\ Untouched
      /\ VendorWritesOwn
    ]_vars

\* C23 (as amended): such a request leaves the order unchanged and is
\* answered 404, except that a status-update request carrying no status is
\* answered 400.
C23_NotOwnedRejected ==
  [][ /\ \A c \in Vendors, o \in OrderIds :
           (NotOwned(c, o) /\ cancelOrder(c, o))
             => last'.code = "404" /\ Untouched
      /\ \A c \in Vendors, o \in OrderIds, s \in StatusArgs \cup {NoStatus} :
           (NotOwned(c, o) /\ updateOrderStatus(c, o, s))
             => /\ last'.code = (IF s = NoStatus THEN "400" ELSE "404")
                /\ Untouched
      /\ VendorWritesOwn
    ]_vars

C23_Witness ==
  /\ last.step = "request"
  /\ last.op \in {"cancelOrder", "updateOrderStatus"}
  /\ last.code = "404"
  /\ last.caller \in Vendors
  /\ NotOwned(last.caller, last.oid)
  /\ orders[last.oid].status = "PENDING"

\* the ids of a list of orders
Ids(list) == {list[i].id : i \in DOMAIN list}

\* C24: the available-orders query answers exactly the persisted orders with
\* status PENDING and null dropperId, and an order that is cancelled or has
\* been accepted (it has a dropper) is never again among them.
C24_AvailableExact ==
  [][ /\ \A q \in pending' \ pending :
           (last'.op = "getAvailableOrders" /\ "available" \in DOMAIN q.got)
             => Ids(q.got["available"]) =
                  {o \in DOMAIN orders' : /\ orders'[o].status = "PENDING"
                                          /\ orders'[o].dropperId = NULL}
      /\ \A o \in DOMAIN orders :
           (orders[o].status = "CANCELLED" \/ orders[o].dropperId # NULL)
             => ~(orders'[o].status = "PENDING" /\ orders'[o].dropperId = NULL)
    ]_vars

\* C25: every persisted order has orderValue >= 0; a creation request with a
\* negative orderValue is answered 400 and creates no order, and an order
\* created without orderValue stores 0.
C25_ValueNonNegative ==
  [][ /\ \A o \in DOMAIN orders' : orders'[o].orderValue >= 0
      /\ \A c \in Vendors, b \in Bodies :
           (createOrder(c, b) /\ b.orderValue # <<>> /\ b.orderValue[1] < 0)
             => last'.code = "400" /\ orders' = orders
      /\ Len(orders') > Len(orders)
           => (submitted'[Len(orders')].orderValue = <<>>
                 => orders'[Len(orders')].orderValue = 0)
    ]_vars

C25_Witness ==
  /\ last.op = "createOrder"
  /\ last.code = "201"
  /\ submitted[last.oid].orderValue = <<>>
  /\ orders[last.oid].orderValue = 0

NoSharedEmail(table) ==
  \A i, j \in DOMAIN table : table[i].email = table[j].email => i = j

\* C26: a registration request with a role other than VENDOR or
\* DELIVERY_PARTNER, or with an email some user has, is answered 400, creates
\* no user and issues no token; a user is only ever created with one of the
\* two roles, and a registration that no other registration ran into creates
\* its user only while no user has the email, so that no two users come to
\* share an email.
C26_RegistrationGuarded ==
  [][ /\ \A e \in Emails, r \in RoleArgs, p \in Passwords :
           ( /\ register(e, r, p)
             /\ \/ r \notin {"VENDOR", "DELIVERY_PARTNER"}
                \/ \E i \in DOMAIN users : users[i].email = e )
             => /\ last'.code = "400"
                /\ users' = users
                /\ pending' = pending
                /\ "token" \notin DOMAIN data'
      /\ Len(users') > Len(users)
           => users'[Len(users')].role \in {"VENDOR", "DELIVERY_PARTNER"}
      /\ \A w \in pending :
           (w.op = "register" /\ w.clean /\ Len(users') > Len(users)
              /\ last'.caller = w.caller /\ w \notin pending')
             => /\ \A i \in DOMAIN users : users[i].email # w.caller
                /\ NoSharedEmail(users) => NoSharedEmail(users')
    ]_vars

C26_Witness ==
  /\ last.op = "register"
  /\ last.code = "400"
  /\ last.caller = "n1"
  /\ Len(users) = Len(Registered) + 1
  /\ users[Len(users)].email = "n1"
  /\ NoSharedEmail(users)

\* C27: when the assigned partner completes an IN_TRANSIT order from the
\* dashboard, the POST that follows the emitted 'delivery:completed' event is
\* never answered 404, however the two server handlers interleave.
C27_CompleteNeverFails ==
  [][\A m \in pending \ pending' :
       m.op = "POST complete" => last'.code # "404"]_vars

\* the dashboard has nothing left to process: no loadData under way and
\* every published event handled or missed
Settled ==
  /\ \A q \in pending : q.op # "loadData"
  /\ Len(received) = Len(published)

Announced(o) ==
  \E i \in DOMAIN received :
    /\ received[i]
    /\ published[i].room = AVAILABLE
    /\ published[i].event = "order:created"
    /\ published[i].oid = o

\* C28: the delivery dashboard's availableOrders never holds one order id
\* twice, and once every fetch response and broadcast has been processed it
\* holds every PENDING unassigned order that was announced to it.
C28_AvailableListSound ==
  /\ \A i, j \in DOMAIN availableOrders :
       availableOrders[i].id = availableOrders[j].id => i = j
  /\ Settled
       => \A o \in DOMAIN orders :
            ( /\ Announced(o)
              /\ orders[o].status = "PENDING"
              /\ orders[o].dropperId = NULL )
              => o \in Ids(availableOrders)

RECURSIVE ValueOf(_, _)
ValueOf(db, S) ==
  IF S = {} THEN 0
  ELSE LET o == CHOOSE x \in S : TRUE
       IN db[o].orderValue + ValueOf(db, S \ {o})

\* C29: the numbers one getDeliveryStats call answers are consistent with
\* each other whatever order writes fall between its queries:
\* completedDeliveries + activeDeliveries is at most totalDeliveries, and
\* totalEarnings is 20% of the value of as many of the partner's orders as
\* completedDeliveries counts.
C29_StatsConsistent ==
  [][(last'.op = "getDeliveryStats" /\ last'.code = "200")
       => /\ data'.completedDeliveries + data'.activeDeliveries
               <= data'.totalDeliveries
          /\ \E S \in SUBSET {o \in DOMAIN orders' :
                                 orders'[o].dropperId = last'.caller} :
               /\ Cardinality(S) = data'.completedDeliveries
               /\ data'.totalEarnings * 100 = 20 * ValueOf(orders', S)
    ]_vars
====
